---- MODULE Spec2Model ----
(***************************************************************************)
(* Model of the live-data side of the T-Display web editor (src/script.js):*)
(* WebSocketManager (connection state machine with bounded automatic       *)
(* reconnection) and LiveDataManager (the telemetry pipeline fed by it).   *)
(*                                                                         *)
(* The browser is the environment: it creates sockets, delivers their      *)
(* open / message / error / close events, fires timers and delivers the    *)
(* clicks on the Connect and Disconnect buttons, in any order.             *)
(***************************************************************************)
EXTENDS Integers, Sequences, FiniteSets, TLC

(***************************************************************************)
(* Bounds of the model (not program constants).                            *)
(***************************************************************************)
MaxOrphans == 1      \* sockets the manager has dropped that are not closed yet, at a time
MaxTimers  == 2      \* reconnect timers pending at a time
MaxMsgs    == 2      \* inbound messages in one run
MaxClock   == 1      \* largest value Date.now() returns in one run
MaxSubMsgs == 1      \* inbound messages in one run of SpecSubs
MaxRateLen == 3      \* timestamps in a window of SpecRate, but for the ten samples
MaxRateTime == 5     \* largest timestamp in such a window
MaxHitCells == 2     \* cells handed to findCellAtPosition in SpecHit
MaxPoint   == 3      \* largest coordinate of the point handed to it
MaxScreens == 2      \* largest screen number of a document
MaxCells   == 2      \* most cells of a screen
MaxEdits   == 1      \* property edits and stepper clicks in one run of SpecEdit
MaxLevel   == 45     \* largest level handed to setZoom, in tenths

(***************************************************************************)
(* Program constants.                                                      *)
(***************************************************************************)
maxReconnectAttempts == 5
updateRateWindowSize == 10

\* the zoom of CanvasManager, in hundredths: 1.0, 0.5, 4.0 and 0.25
initialZoom == 100
minZoom     == 50
maxZoom     == 400
zoomStep    == 25

NoTime       == -1     \* this.lastMessageTime === null
NoCallback   == "null" \* an empty callback slot
NoSocket     == "null" \* this.ws === null
NoArgs       == <<>>   \* no function has been applied on its own
NoResult     == "none"
NoDoc        == <<>>   \* the config document is not part of the run
NoSelection  == <<>>   \* the dropdowns of the editor are not part of the run
NoPanel      == <<>>   \* the properties panel shows no input
NoDataTypes  == <<>>   \* DATA_TYPES_SCREEN is not part of the run
NoCell       == -1     \* cellSelect.value === '', which parseInt turns into NaN

VARIABLES
    ws,                 \* this.ws: the readyState of the manager's socket, or NoSocket
    orphans,            \* sockets created by connect() that this.ws no longer refers to and
                        \* that are not closed yet: how many there are in each readyState
    reconnectAttempts,  \* this.reconnectAttempts
    shouldReconnect,    \* this.shouldReconnect
    messageCallback,    \* this.messageCallback
    statusCallback,     \* this.statusCallback
    messageCount,       \* this.messageCount
    lastMessageTime,    \* this.lastMessageTime
    status,             \* state last reported through the status callback
    timers,             \* number of pending setTimeout reconnect callbacks
    clock,              \* last value returned by Date.now()
    currentCells,       \* LiveDataManager.currentCells
    updateRateWindow,   \* LiveDataManager.updateRateWindow
    stats,              \* what updateStatistics last displayed
    lastOp,             \* history: the operation / event handled last
    closeRun,           \* history (SpecRun): close events with auto-reconnect enabled
                        \* since the last open event or user call, counted up to 6
    lastMsg,            \* history: whether the event handled last was a valid live
                        \* message, and the cells it carried
    registered,         \* history: for onMessage and for onStatusChange, the subscriber
                        \* registered last and all the subscribers registered so far
    calls,              \* history: the subscriber calls made by the operation handled last
    args,               \* the arguments of a function that is applied on its own
    result,             \* and what it returned
    doc,                \* ConfigManager.data: screen number -> the cells of SCREEN_<n>
    edits,              \* history: property edits and stepper clicks made so far
    zoomLevel,          \* CanvasManager.zoomLevel, in hundredths
    selection,          \* screenSelect.value as the number of the screen and
                        \* cellSelect.value as the 0-based index of the cell, or NoCell
    panel,              \* cellDetails: the value each rendered input shows, by the
                        \* property it edits, or NoPanel
    dataTypes           \* ConfigManager.data.DATA_TYPES_SCREEN for the geometry members

wsVars   == <<ws, orphans, reconnectAttempts, shouldReconnect, messageCallback,
              statusCallback, messageCount, lastMessageTime, status, timers>>
liveVars == <<currentCells, updateRateWindow, stats>>
histVars == <<lastOp, closeRun, lastMsg, registered, calls>>
pureVars == <<args, result>>
editVars == <<doc, edits, zoomLevel, selection, panel, dataTypes>>
vars     == <<wsVars, clock, liveVars, histVars, pureVars, editVars>>

ReadyStates  == {"CONNECTING", "OPEN", "CLOSING", "CLOSED"}
OrphanStates == {"CONNECTING", "OPEN", "CLOSING"}
States       == {"disconnected", "connecting", "connected", "error"}

(***************************************************************************)
(* Inbound message texts (event.data) and what JSON.parse makes of them.   *)
(* A decoded value is described by its type, whether it has a `cells`      *)
(* member, what kind of value that member is, and the cells of an array.   *)
(* A cell carries its `enabled` member and the kind of its `value` member  *)
(* as JavaScript values written as text: "true" / "false" are the          *)
(* booleans, "'true'" / "'false'" the strings.  An element of the array    *)
(* that is the JSON value null has no member at all.                       *)
(***************************************************************************)
Cell(en, px, val) == [isNull |-> FALSE, enabled |-> en, posx |-> px, value |-> val]

\* the element null of a `cells` array
NullElement == [isNull |-> TRUE, enabled |-> "undefined", posx |-> 0, value |-> "undefined"]

NoData == [ok |-> FALSE, type |-> "none", cells |-> "undefined", list |-> <<>>]
Value(t, c, l) == [ok |-> TRUE, type |-> t, cells |-> c, list |-> l]

MsgBad      == "{cells:"
MsgNull     == "null"
MsgNumber   == "42"
MsgString   == "\"cells\""
MsgBool     == "true"
MsgArray    == "[1,2]"
MsgNoCells  == "{}"
MsgCellsNum == "{\"cells\":7}"
MsgEmpty    == "{\"cells\":[]}"
MsgTwo      == "{\"cells\":[{\"enabled\":true,\"posx\":1,\"value\":1.5},{\"enabled\":false,\"posx\":2,\"value\":2}]}"
MsgText     == "{\"cells\":[{\"enabled\":\"false\",\"posx\":3,\"value\":3}]}"
MsgBadValue == "{\"cells\":[{\"enabled\":true,\"posx\":4,\"value\":\"x\"}]}"
MsgNullCell == "{\"cells\":[null]}"

Messages == {MsgBad, MsgNull, MsgNumber, MsgString, MsgBool, MsgArray, MsgNoCells,
             MsgCellsNum, MsgEmpty, MsgTwo, MsgText, MsgBadValue, MsgNullCell}

JSONParse(text) ==
    CASE text = MsgNull     -> Value("null", "undefined", <<>>)
      [] text = MsgNumber   -> Value("number", "undefined", <<>>)
      [] text = MsgString   -> Value("string", "undefined", <<>>)
      [] text = MsgBool     -> Value("boolean", "undefined", <<>>)
      [] text = MsgArray    -> Value("array", "undefined", <<>>)
      [] text = MsgNoCells  -> Value("object", "undefined", <<>>)
      [] text = MsgCellsNum -> Value("object", "number", <<>>)
      [] text = MsgEmpty    -> Value("object", "array", <<>>)
      [] text = MsgTwo      -> Value("object", "array",
                                     <<Cell("true", 1, "number"), Cell("false", 2, "number")>>)
      [] text = MsgText     -> Value("object", "array", <<Cell("'false'", 3, "number")>>)
      [] text = MsgBadValue -> Value("object", "array", <<Cell("true", 4, "string")>>)
      [] text = MsgNullCell -> Value("object", "array", <<NullElement>>)
      [] OTHER              -> NoData

\* JavaScript truthiness of a value written as text
Truthy(v) == v \notin {"false", "undefined", "null", "0", "''"}

\* a valid live message: one that decodes to a value with an array-typed `cells`
Valid(data) == data.ok /\ data.type # "null" /\ data.cells = "array"

NoMsg     == [valid |-> FALSE, cells |-> <<>>]
Msg(data) == IF Valid(data) THEN [valid |-> TRUE, cells |-> data.list] ELSE NoMsg

\* data.cells.filter(cell => cell.enabled) throws a TypeError when the
\* callback reads `enabled` of an element that is null
FilterThrows(cells) == \E i \in 1..Len(cells) : cells[i].isNull

\* data.cells.filter(cell => cell.enabled), when it does not throw
RECURSIVE FilterEnabled(_)
FilterEnabled(cells) ==
    IF cells = <<>> THEN <<>>
    ELSE IF Truthy(Head(cells).enabled)
         THEN <<Head(cells)>> \o FilterEnabled(Tail(cells))
         ELSE FilterEnabled(Tail(cells))

(***************************************************************************)
(* Texts and parseInt.  A text is the sequence of its characters; a number *)
(* stored in a cell is handed to parseInt as its decimal text, which is    *)
(* what parseInt makes of it first.  parseInt returns [nan |-> TRUE] for   *)
(* NaN.                                                                    *)
(***************************************************************************)
NaN    == [nan |-> TRUE, n |-> 0]
Num(n) == [nan |-> FALSE, n |-> n]

\* the value of a character as a digit, 99 when it is none
DigitValue(c) ==
    CASE c = "0" -> 0 [] c = "1" -> 1 [] c = "2" -> 2 [] c = "3" -> 3 [] c = "4" -> 4
      [] c = "5" -> 5 [] c = "6" -> 6 [] c = "7" -> 7 [] c = "8" -> 8 [] c = "9" -> 9
      [] c \in {"a", "A"} -> 10 [] c \in {"b", "B"} -> 11 [] c \in {"c", "C"} -> 12
      [] c \in {"d", "D"} -> 13 [] c \in {"e", "E"} -> 14 [] c \in {"f", "F"} -> 15
      [] OTHER -> 99

RECURSIVE SkipSpaces(_)
SkipSpaces(text) ==
    IF text # <<>> /\ Head(text) = " " THEN SkipSpaces(Tail(text)) ELSE text

\* the value of the longest prefix of text made of digits of the radix
RECURSIVE DigitsValue(_, _, _)
DigitsValue(text, radix, acc) ==
    IF text = <<>> \/ DigitValue(Head(text)) >= radix
    THEN acc
    ELSE DigitsValue(Tail(text), radix, acc * radix + DigitValue(Head(text)))

\* parseInt(text, radix) for radix 10 and 16, and parseInt(text) as radix 0
ParseInt(text, radix) ==
    LET trimmed  == SkipSpaces(text)
        negative == trimmed # <<>> /\ Head(trimmed) = "-"
        unsigned == IF trimmed # <<>> /\ Head(trimmed) \in {"+", "-"}
                    THEN Tail(trimmed) ELSE trimmed
        prefixed == Len(unsigned) >= 2 /\ unsigned[1] = "0" /\ unsigned[2] \in {"x", "X"}
        base     == IF radix = 0 THEN (IF prefixed THEN 16 ELSE 10) ELSE radix
        digits   == IF base = 16 /\ prefixed
                    THEN SubSeq(unsigned, 3, Len(unsigned)) ELSE unsigned
    IN  IF digits = <<>> \/ DigitValue(Head(digits)) >= base
        THEN NaN
        ELSE Num((IF negative THEN -1 ELSE 1) * DigitsValue(digits, base, 0))

\* `v || 0` for a number v: NaN and 0 give 0
OrZero(v) == IF v.nan THEN 0 ELSE v.n

\* the decimal text of a natural number, and of an integer (String(n))
DigitChar(d) == <<"0", "1", "2", "3", "4", "5", "6", "7", "8", "9",
                  "a", "b", "c", "d", "e", "f">>[d + 1]

RECURSIVE NatToText(_, _)
NatToText(n, radix) ==
    IF n < radix THEN <<DigitChar(n)>>
    ELSE NatToText(n \div radix, radix) \o <<DigitChar(n % radix)>>

IntToText(n) == IF n < 0 THEN <<"-">> \o NatToText(-n, 10) ELSE NatToText(n, 10)

\* text.padStart(length, "0")
RECURSIVE PadStart(_, _)
PadStart(text, length) ==
    IF Len(text) >= length THEN text ELSE PadStart(<<"0">> \o text, length)

\* text.replace('#', ''): the text without its first "#"
RECURSIVE RemoveHash(_)
RemoveHash(text) ==
    IF text = <<>> THEN <<>>
    ELSE IF Head(text) = "#" THEN Tail(text)
    ELSE <<Head(text)>> \o RemoveHash(Tail(text))

\* text.substring(from, to) for 0 <= from <= to
Substring(text, from, to) ==
    SubSeq(text, (IF from > Len(text) THEN Len(text) ELSE from) + 1,
                 IF to > Len(text) THEN Len(text) ELSE to)

\* ToInt32 of the result of parseInt, as the operators >> and & take it: NaN is 0
ToInt32(v) == IF v.nan THEN 0 ELSE v.n

\* a | b for natural numbers
RECURSIVE BitOr(_, _)
BitOr(a, b) ==
    IF a = 0 THEN b
    ELSE IF b = 0 THEN a
    ELSE 2 * BitOr(a \div 2, b \div 2) + (IF a % 2 = 1 \/ b % 2 = 1 THEN 1 ELSE 0)

\* rgb565ToRgb888(rgb565) without the rounding of the channels
rgb565ToRgb888NoRounding(rgb565) ==
    LET r == ((rgb565 \div 2048) % 32) * 8
        g == ((rgb565 \div 32) % 64) * 4
        b == (rgb565 % 32) * 8
    IN  BitOr(BitOr(r * 65536, g * 256), b)

\* rgb565ToRgb888(rgb565) for a natural number: the number 0xRRGGBB
rgb565ToRgb888(rgb565) ==
    LET r0 == ((rgb565 \div 2048) % 32) * 8
        g0 == ((rgb565 \div 32) % 64) * 4
        b0 == (rgb565 % 32) * 8
        r  == r0 + (r0 \div 32)
        g  == g0 + (g0 \div 64)
        b  == b0 + (b0 \div 32)
    IN  BitOr(BitOr(r * 65536, g * 256), b)

\* rgb888ToRgb565(hexColor) that keeps five bits of green
rgb888ToRgb565GreenFiveBits(hexColor) ==
    LET hex == RemoveHash(hexColor)
        r   == ToInt32(ParseInt(Substring(hex, 0, 2), 16))
        g   == ToInt32(ParseInt(Substring(hex, 2, 4), 16))
        b   == ToInt32(ParseInt(Substring(hex, 4, 6), 16))
        r5  == (r \div 8) % 32
        g6  == (g \div 8) % 64
        b5  == (b \div 8) % 32
        rgb565 == BitOr(BitOr(r5 * 2048, g6 * 32), b5)
    IN  <<"0", "x">> \o PadStart(NatToText(rgb565, 16), 4)

\* rgb888ToRgb565(hexColor) that does not pad the digits
rgb888ToRgb565NoPad(hexColor) ==
    LET hex == RemoveHash(hexColor)
        r   == ToInt32(ParseInt(Substring(hex, 0, 2), 16))
        g   == ToInt32(ParseInt(Substring(hex, 2, 4), 16))
        b   == ToInt32(ParseInt(Substring(hex, 4, 6), 16))
        r5  == (r \div 8) % 32
        g6  == (g \div 4) % 64
        b5  == (b \div 8) % 32
        rgb565 == BitOr(BitOr(r5 * 2048, g6 * 32), b5)
    IN  <<"0", "x">> \o NatToText(rgb565, 16)

\* rgb888ToRgb565(hexColor): the text '0x' and four hexadecimal digits
rgb888ToRgb565(hexColor) ==
    LET hex == RemoveHash(hexColor)
        r   == ToInt32(ParseInt(Substring(hex, 0, 2), 16))
        g   == ToInt32(ParseInt(Substring(hex, 2, 4), 16))
        b   == ToInt32(ParseInt(Substring(hex, 4, 6), 16))
        r5  == (r \div 8) % 32
        g6  == (g \div 4) % 64
        b5  == (b \div 8) % 32
        rgb565 == r5 * 2048 + g6 * 32 + b5
    IN  <<"0", "x">> \o PadStart(NatToText(rgb565, 16), 4)

\* the value renderCellProperties shows in the input of a color property,
\* without the padding to six digits
DisplayValueNoPad(stored) ==
    IF stored = <<>> THEN stored
    ELSE <<"#">> \o NatToText(rgb565ToRgb888(ToInt32(ParseInt(stored, 16))), 16)

\* the value renderCellProperties shows in the input of a color property whose
\* stored text is `stored`: '#' and six hexadecimal digits
DisplayValue(stored) ==
    IF stored = <<>> THEN stored
    ELSE <<"#">> \o PadStart(NatToText(rgb565ToRgb888(ToInt32(ParseInt(stored, 16))), 16), 6)

\* the value onPropertyChange stores for the value of an input
ColorValue(property, value) ==
    IF property \in {"bg_color", "font1_color", "font2_color"}
       /\ value # <<>> /\ Head(value) = "#"
    THEN rgb888ToRgb565(value)
    ELSE value

(***************************************************************************)
(* CanvasManager: the zoom                                                 *)
(***************************************************************************)
MinOf(a, b) == IF a <= b THEN a ELSE b
MaxOf(a, b) == IF a >= b THEN a ELSE b

\* setZoom(level) that does not hold the level down to maxZoom
SetZoomNoCeiling(level) == MaxOf(minZoom, level)

\* setZoom(level): the new zoom level
SetZoom(level) == MaxOf(minZoom, MinOf(maxZoom, level))

\* zoomIn(), zoomOut() and resetZoom(): the new zoom level
ZoomIn    == SetZoom(zoomLevel + zoomStep)
ZoomOut   == SetZoom(zoomLevel - zoomStep)
ResetZoom == SetZoom(100)

(***************************************************************************)
(* CanvasManager                                                           *)
(***************************************************************************)

\* the test of findCellAtPosition: the point is within the cell's rectangle
ContainsPoint(cell, x, y) ==
    LET px == OrZero(ParseInt(cell.posx, 10))
        py == OrZero(ParseInt(cell.posy, 10))
        w  == OrZero(ParseInt(cell.sizex, 10))
        h  == OrZero(ParseInt(cell.sizey, 10))
    IN  x >= px /\ x <= px + w /\ y >= py /\ y <= py + h

\* Array.prototype.findIndex with that test, from the 1-based position i
RECURSIVE FindIndexFrom(_, _, _, _)
FindIndexFrom(x, y, cells, i) ==
    IF i > Len(cells) THEN -1
    ELSE IF ContainsPoint(cells[i], x, y) THEN i - 1
    ELSE FindIndexFrom(x, y, cells, i + 1)

\* findCellAtPosition that returns the cell drawn last among those that contain the point
FindCellAtPositionTopmost(x, y, cells) ==
    LET hits == {i \in 1..Len(cells) : ContainsPoint(cells[i], x, y)}
    IN  IF hits = {} THEN -1 ELSE (CHOOSE i \in hits : \A j \in hits : j <= i) - 1

\* findCellAtPosition(x, y, cells): a 0-based index, or -1
FindCellAtPosition(x, y, cells) ==
    FindIndexFrom(x, y, cells, 1)

(***************************************************************************)
(* LiveDataManager                                                         *)
(***************************************************************************)

\* calculateUpdateRate that divides the number of timestamps by the time span
CalculateUpdateRateCountsAll(window) ==
    IF Len(window) < 2 THEN <<0, 1>>
    ELSE LET timeSpan == window[Len(window)] - window[1]
             count    == Len(window)
         IN  IF timeSpan = 0 THEN <<0, 1>> ELSE <<count * 1000, timeSpan>>

\* calculateUpdateRate: the rate (n / span) * 1000 as the fraction <<n * 1000, span>>,
\* and 0 as <<0, 1>>
CalculateUpdateRate(window) ==
    IF Len(window) < 2 THEN <<0, 1>>
    ELSE LET timeSpan == window[Len(window)] - window[1]
             count    == Len(window) - 1
         IN  IF timeSpan = 0 THEN <<0, 1>> ELSE <<count * 1000, timeSpan>>

\* updateStatistics: the three figures it writes to the page
UpdateStatistics(count, cells, window) ==
    [messages |-> count, activeCells |-> Len(cells), rate |-> CalculateUpdateRate(window)]

\* drawLiveCell throws a TypeError when it formats a `value` that is not a
\* number (cell.value.toFixed is not a function); no cell of Messages has str_value
DrawLiveCellThrows(cell) == cell.value \notin {"number", "undefined", "null"}

DrawLiveCellsThrows(cells) == \E i \in 1..Len(cells) : DrawLiveCellThrows(cells[i])

\* the push at the end of handleLiveData, with the FIFO eviction
PushWindow(window, now) ==
    LET pushed == Append(window, now)
    IN  IF Len(pushed) > updateRateWindowSize THEN Tail(pushed) ELSE pushed

\* handleLiveData that empties the cell set before it validates the message
HandleLiveDataClearsOnInvalid(data, count, now) ==
    LET same == [threw |-> FALSE, pushed |-> FALSE, currentCells |-> currentCells,
                 updateRateWindow |-> updateRateWindow, stats |-> stats]
    IN  IF data.type = "null"
        THEN [same EXCEPT !.threw = TRUE, !.currentCells = <<>>]
        ELSE IF ~Truthy(data.cells) \/ data.cells # "array"
        THEN [same EXCEPT !.currentCells = <<>>]
        ELSE IF FilterThrows(data.list)
        THEN [same EXCEPT !.threw = TRUE]
        ELSE LET filtered == FilterEnabled(data.list)
             IN  IF DrawLiveCellsThrows(filtered)
                 THEN [same EXCEPT !.threw = TRUE, !.currentCells = filtered]
                 ELSE [threw            |-> FALSE,
                       pushed           |-> TRUE,
                       currentCells     |-> filtered,
                       updateRateWindow |-> PushWindow(updateRateWindow, now),
                       stats            |-> UpdateStatistics(count, filtered, updateRateWindow)]

\* handleLiveData(data), called when `count` messages have been received and
\* Date.now() returns `now`: the pipeline state it leaves, whether it threw and
\* whether it got as far as pushing `now` onto the window
HandleLiveData(data, count, now) ==
    LET same == [threw |-> FALSE, pushed |-> FALSE, currentCells |-> currentCells,
                 updateRateWindow |-> updateRateWindow, stats |-> stats]
    IN  IF data.type = "null"
        THEN [same EXCEPT !.threw = TRUE]                 \* data.cells of null
        ELSE IF ~Truthy(data.cells) \/ data.cells # "array"
        THEN same
        ELSE IF FilterThrows(data.list)
        THEN [same EXCEPT !.threw = TRUE]                 \* before the assignment
        ELSE LET filtered == FilterEnabled(data.list)
             IN  IF DrawLiveCellsThrows(filtered)
                 THEN [same EXCEPT !.threw = TRUE, !.currentCells = filtered]
                 ELSE [threw            |-> FALSE,
                       pushed           |-> TRUE,
                       currentCells     |-> filtered,
                       updateRateWindow |-> PushWindow(updateRateWindow, now),
                       stats            |-> UpdateStatistics(count, filtered, updateRateWindow)]

\* this.messageCallback(data) in ws.onmessage: the subscriber registered by
\* LiveDataManager.initialize is handleLiveData; any other subscriber takes the
\* message, returns normally and leaves the pipeline alone
MessageCallback(data, count, now) ==
    IF messageCallback = "handleLiveData"
    THEN HandleLiveData(data, count, now)
    ELSE [threw |-> FALSE, pushed |-> FALSE, currentCells |-> currentCells,
          updateRateWindow |-> updateRateWindow, stats |-> stats]

(***************************************************************************)
(* ConfigManager and the editing handlers of UIManager                     *)
(*                                                                         *)
(* The config document maps the number n of each SCREEN_<n> to the cells   *)
(* of that screen.  A cell carries its four geometry members and its three *)
(* color members, each as the text of the stored value.                    *)
(***************************************************************************)
GeometryProperties == {"posx", "posy", "sizex", "sizey"}
ColorProperties    == {"bg_color", "font1_color", "font2_color"}

\* the cell that addScreen and addCell create
NewCell ==
    [posx |-> <<"0">>, posy |-> <<"0">>,
     sizex |-> <<"1", "0", "0">>, sizey |-> <<"5", "0">>,
     bg_color    |-> <<"#", "0", "0", "0", "0", "0", "0">>,
     font1_color |-> <<"#", "0", "0", "f", "f", "8", "8">>,
     font2_color |-> <<"#", "f", "f", "f", "f", "f", "f">>]

\* the largest element of a non-empty set of numbers
Max(S) == CHOOSE n \in S : \A m \in S : m <= n

\* addScreen(): the document with SCREEN_<max + 1> added
AddScreen ==
    LET nextNumber == IF DOMAIN doc # {} THEN Max(DOMAIN doc) + 1 ELSE 1
    IN  [n \in DOMAIN doc \cup {nextNumber} |->
            IF n = nextNumber THEN <<NewCell>> ELSE doc[n]]

\* deleteScreen(screenKey)
DeleteScreen(screen) ==
    [n \in DOMAIN doc \ {screen} |-> doc[n]]

\* addCell(screenKey)
AddCell(screen) ==
    IF screen \notin DOMAIN doc THEN doc
    ELSE [doc EXCEPT ![screen] = Append(@, NewCell)]

\* deleteCell(screenKey, cellIndex), cellIndex being 0-based
DeleteCell(screen, cellIndex) ==
    IF screen \notin DOMAIN doc THEN doc
    ELSE IF cellIndex < 0 \/ cellIndex >= Len(doc[screen]) THEN doc
    ELSE [doc EXCEPT ![screen] = SubSeq(@, 1, cellIndex) \o SubSeq(@, cellIndex + 2, Len(@))]

\* updateCell(screenKey, cellIndex, {[property]: value})
UpdateCell(screen, cellIndex, property, value) ==
    IF screen \notin DOMAIN doc THEN doc
    ELSE IF cellIndex < 0 \/ cellIndex >= Len(doc[screen]) THEN doc
    ELSE [doc EXCEPT ![screen][cellIndex + 1][property] = value]

\* onPropertyChange(input) with SCREEN_<screen> and the cell cellIndex selected:
\* the new document
OnPropertyChange(screen, cellIndex, property, value) ==
    UpdateCell(screen, cellIndex, property,
               IF property \in ColorProperties /\ value # <<>> /\ Head(value) = "#"
               THEN rgb888ToRgb565(value)
               ELSE value)

\* the characters of text are decimal digits, and there is at least one
AllDigits(text) ==
    /\ text # <<>>
    /\ \A i \in 1..Len(text) : DigitValue(text[i]) < 10

\* text is a valid floating-point number of HTML: an optional "-", digits,
\* and an optional "." followed by digits (exponents are not modelled)
IsValidNumber(text) ==
    LET unsigned == IF text # <<>> /\ Head(text) = "-" THEN Tail(text) ELSE text
        dots     == {i \in 1..Len(unsigned) : unsigned[i] = "."}
        dot      == CHOOSE i \in dots : TRUE
    IN  IF dots = {} THEN AllDigits(unsigned)
        ELSE /\ Cardinality(dots) = 1
             /\ AllDigits(SubSeq(unsigned, dot + 1, Len(unsigned)))
             /\ dot = 1 \/ AllDigits(SubSeq(unsigned, 1, dot - 1))

\* the value an <input type="number"> holds once text has been put into it:
\* text that is not a valid number becomes the empty string
Sanitize(text) == IF IsValidNumber(text) THEN text ELSE <<>>

\* renderCellProperties renders the member as <input type="number"> between
\* two stepper buttons; every other member of a cell of the model gets an
\* <input type="text">
IsStepperInput(property) ==
    property \in GeometryProperties /\ dataTypes[property] = "integer"

\* the value the input of a property holds once text has been put into it,
\* by the user or by a script
InputValue(property, text) ==
    IF IsStepperInput(property) THEN Sanitize(text) ELSE text

\* cellDetails holds inputs
HasInputs(shown) == DOMAIN shown # {}

\* renderCellProperties(screenKey, cellIndex): the value each input shows
RenderCellProperties(document, screen, cellIndex) ==
    IF \/ screen \notin DOMAIN document
       \/ cellIndex < 0
       \/ cellIndex >= Len(document[screen])
    THEN NoPanel
    ELSE LET cell == document[screen][cellIndex + 1]
         IN  [property \in DOMAIN cell |->
                 IF property \in ColorProperties
                 THEN DisplayValue(cell[property])
                 ELSE InputValue(property, cell[property])]

\* getScreenKeys()[0]: the keys come in the order of the loaded document,
\* which lists its screens by number, followed by the screens added since
FirstScreen(document) == CHOOSE n \in DOMAIN document : \A m \in DOMAIN document : n <= m

\* cellSelect.value after populateCellDropdown: the first option, if any
FirstOption(document, screen) == IF Len(document[screen]) > 0 THEN 0 ELSE NoCell

\* the click handler of a stepper button, up to its call of onPropertyChange:
\* the value it puts into the input
SteppedValue(property, action) ==
    LET currentValue == OrZero(ParseInt(panel[property], 0))
        newValue     == IF action = "increment" THEN currentValue + 1 ELSE currentValue - 1
    IN  InputValue(property, IntToText(newValue))

\* the click handler of a stepper button: the new document
OnStepperClick(screen, cellIndex, property, action) ==
    OnPropertyChange(screen, cellIndex, property, SteppedValue(property, action))

\* onSave() with SCREEN_<screen> and the cell cellIndex selected: the value of
\* every input of the panel is written to the cell, a color that starts with
\* "#" packed first
OnSave(screen, cellIndex) ==
    IF \/ ~HasInputs(panel)
       \/ screen \notin DOMAIN doc
       \/ cellIndex < 0
       \/ cellIndex >= Len(doc[screen])
    THEN doc
    ELSE [doc EXCEPT ![screen][cellIndex + 1] =
             [property \in DOMAIN @ |->
                 IF property \in DOMAIN panel
                 THEN ColorValue(property, panel[property])
                 ELSE @[property]]]

(***************************************************************************)
(* WebSocketManager                                                        *)
(*                                                                         *)
(* Every socket connect() creates keeps the four handlers connect() gave   *)
(* it, whether or not this.ws still refers to it.  The handlers do not     *)
(* look at the socket they belong to, so the sockets this.ws has let go of *)
(* are kept as a count per readyState.  A closed socket gets no further    *)
(* event and is dropped from the count.                                    *)
(***************************************************************************)

\* updateStatus(status, message): the state the status callback is left showing
UpdateStatus(s) == IF statusCallback # NoCallback THEN s ELSE status

\* one call of a subscriber: who is called, through which slot, with what
Call(sub, slot, what) == [to |-> sub, slot |-> slot, what |-> what]

\* the calls of the status subscriber that the updateStatus calls of one
\* handler make, ss being the states they pass in order
StatusCalls(ss) ==
    IF statusCallback # NoCallback
    THEN [i \in 1..Len(ss) |-> Call(statusCallback, "status", ss[i])]
    ELSE <<>>

\* the call `this.messageCallback(data)` of ws.onmessage
MessageCalls ==
    IF messageCallback # NoCallback
    THEN <<Call(messageCallback, "message", "data")>>
    ELSE <<>>

Op(name, ok) == [op |-> name, ok |-> ok]

\* the registrations made through one of onMessage and onStatusChange
NoRegistration == [last |-> NoCallback, all |-> {}]
Registered(reg, callback) == [last |-> callback, all |-> reg.all \cup {callback}]

NoOrphans == [r \in OrphanStates |-> 0]

NumOrphans == orphans["CONNECTING"] + orphans["OPEN"] + orphans["CLOSING"]

\* the sockets in readyState r: this.ws if it is in r, and the orphans in r
InState(r) == (IF ws = r THEN 1 ELSE 0) + (IF r \in OrphanStates THEN orphans[r] ELSE 0)

\* this.ws is let go of (overwritten or set to null) in readyState r
Orphaned(r) ==
    IF r \in OrphanStates THEN [orphans EXCEPT ![r] = @ + 1] ELSE orphans

\* WebSocket.close(): a socket that is connecting or open starts closing
CloseCall(readyState) ==
    IF readyState \in {"CONNECTING", "OPEN"} THEN "CLOSING" ELSE readyState

\* connect(): `throws` says whether the WebSocket constructor throws
ConnectBody(throws) ==
    IF ws # NoSocket /\ ws = "OPEN"
    THEN /\ calls' = <<>>
         /\ UNCHANGED <<ws, orphans, shouldReconnect, status>>
    ELSE IF throws
    THEN /\ status' = UpdateStatus("error")
         /\ calls' = StatusCalls(<<"connecting", "error">>)
         /\ UNCHANGED <<ws, orphans, shouldReconnect>>
    ELSE /\ orphans' = Orphaned(ws)
         /\ ws' = "CONNECTING"
         /\ shouldReconnect' = TRUE
         /\ status' = UpdateStatus("connecting")
         /\ calls' = StatusCalls(<<"connecting">>)

\* disconnect()
DisconnectBody ==
    /\ shouldReconnect' = FALSE
    /\ reconnectAttempts' = maxReconnectAttempts
    /\ IF ws # NoSocket
       THEN /\ orphans' = Orphaned(CloseCall(ws))
            /\ ws' = NoSocket
            /\ status' = UpdateStatus("disconnected")
            /\ calls' = StatusCalls(<<"disconnected">>)
       ELSE /\ calls' = <<>>
            /\ UNCHANGED <<ws, orphans, status>>

\* ws.onopen without the reset of the attempt counter
OnOpenNoReset ==
    /\ status' = UpdateStatus("connected")
    /\ calls' = StatusCalls(<<"connected">>)
    /\ UNCHANGED reconnectAttempts

\* ws.onopen
OnOpen ==
    /\ status' = UpdateStatus("connected")
    /\ calls' = StatusCalls(<<"connected">>)
    /\ reconnectAttempts' = 0

\* ws.onmessage that counts and timestamps a message only once it has decoded
OnMessageCountsDecoded(text, t1, t2) ==
    LET data == JSONParse(text)
        r    == MessageCallback(data, messageCount + 1, t2)
    IN  IF ~data.ok
        THEN /\ status' = UpdateStatus("error")
             /\ calls' = StatusCalls(<<"error">>)
             /\ clock' = t1
             /\ UNCHANGED <<messageCount, lastMessageTime, liveVars>>
        ELSE /\ messageCount' = messageCount + 1
             /\ lastMessageTime' = t1
             /\ currentCells' = r.currentCells
             /\ updateRateWindow' = r.updateRateWindow
             /\ stats' = r.stats
             /\ clock' = IF r.pushed THEN t2 ELSE t1
             /\ status' = UpdateStatus(IF r.threw THEN "error" ELSE "connected")
             /\ calls' = MessageCalls
                           \o StatusCalls(<<IF r.threw THEN "error" ELSE "connected">>)

\* ws.onmessage that hands the subscriber an empty cell list when decoding fails
OnMessageClearsOnError(text, t1, t2) ==
    LET data == IF JSONParse(text).ok THEN JSONParse(text) ELSE JSONParse(MsgEmpty)
        r    == MessageCallback(data, messageCount + 1, t2)
    IN  /\ messageCount' = messageCount + 1
        /\ lastMessageTime' = t1
        /\ currentCells' = r.currentCells
        /\ updateRateWindow' = r.updateRateWindow
        /\ stats' = r.stats
        /\ clock' = IF r.pushed THEN t2 ELSE t1
        /\ status' = UpdateStatus(IF r.threw \/ ~JSONParse(text).ok THEN "error" ELSE "connected")
        /\ calls' = MessageCalls
                      \o StatusCalls(<<IF r.threw \/ ~JSONParse(text).ok
                                       THEN "error" ELSE "connected">>)

\* ws.onmessage for event.data = text; Date.now() returns t1 in the handler
\* and t2 in handleLiveData
OnMessage(text, t1, t2) ==
    LET data == JSONParse(text)
        r    == MessageCallback(data, messageCount + 1, t2)
    IN  /\ messageCount' = messageCount + 1
        /\ lastMessageTime' = t1
        /\ IF ~data.ok
           THEN /\ status' = UpdateStatus("error")
                /\ calls' = StatusCalls(<<"error">>)
                /\ clock' = t1
                /\ UNCHANGED liveVars
           ELSE IF messageCallback = NoCallback
           THEN /\ status' = UpdateStatus("connected")
                /\ calls' = StatusCalls(<<"connected">>)
                /\ clock' = t1
                /\ UNCHANGED liveVars
           ELSE /\ currentCells' = r.currentCells
                /\ updateRateWindow' = r.updateRateWindow
                /\ stats' = r.stats
                /\ clock' = IF r.pushed THEN t2 ELSE t1
                /\ status' = UpdateStatus(IF r.threw THEN "error" ELSE "connected")
                /\ calls' = MessageCalls
                              \o StatusCalls(<<IF r.threw THEN "error" ELSE "connected">>)

\* ws.onerror
OnError ==
    /\ status' = UpdateStatus("error")
    /\ calls' = StatusCalls(<<"error">>)

\* ws.onclose that schedules the reconnect without counting the attempt
OnCloseNeverCounts ==
    /\ status' = UpdateStatus("disconnected")
    /\ calls' = StatusCalls(<<"disconnected">>)
    /\ IF shouldReconnect /\ reconnectAttempts < maxReconnectAttempts
       THEN /\ timers' = timers + 1
            /\ UNCHANGED reconnectAttempts
       ELSE UNCHANGED <<reconnectAttempts, timers>>

\* ws.onclose that still reconnects when the attempts have reached the budget
OnCloseCountsPastBudget ==
    /\ status' = UpdateStatus("disconnected")
    /\ calls' = StatusCalls(<<"disconnected">>)
    /\ IF shouldReconnect /\ reconnectAttempts <= maxReconnectAttempts
       THEN /\ reconnectAttempts' = reconnectAttempts + 1
            /\ timers' = timers + 1
       ELSE UNCHANGED <<reconnectAttempts, timers>>

\* ws.onclose that schedules a reconnect whatever shouldReconnect says
OnCloseIgnoresFlag ==
    /\ status' = UpdateStatus("disconnected")
    /\ calls' = StatusCalls(<<"disconnected">>)
    /\ IF reconnectAttempts < maxReconnectAttempts
       THEN /\ reconnectAttempts' = reconnectAttempts + 1
            /\ timers' = timers + 1
       ELSE UNCHANGED <<reconnectAttempts, timers>>

\* ws.onclose
OnClose ==
    /\ status' = UpdateStatus("disconnected")
    /\ calls' = StatusCalls(<<"disconnected">>)
    /\ IF shouldReconnect /\ reconnectAttempts < maxReconnectAttempts
       THEN /\ reconnectAttempts' = reconnectAttempts + 1
            /\ timers' = timers + 1
       ELSE UNCHANGED <<reconnectAttempts, timers>>

(***************************************************************************)
(* The actions: user clicks, socket events, timer firings.  A socket event *)
(* is an event of this.ws (cur = TRUE) or of an orphan (cur = FALSE).      *)
(***************************************************************************)

\* click on the Connect button
Connect ==
    /\ \E throws \in BOOLEAN : ConnectBody(throws)
    /\ NumOrphans' <= MaxOrphans
    /\ lastOp' = Op("connect", TRUE)
    /\ lastMsg' = NoMsg
    /\ UNCHANGED <<registered, pureVars, editVars>>
    /\ UNCHANGED <<reconnectAttempts, messageCallback, statusCallback, messageCount,
                   lastMessageTime, timers, clock, liveVars>>

\* click on the Disconnect button
Disconnect ==
    /\ DisconnectBody
    /\ NumOrphans' <= MaxOrphans
    /\ lastOp' = Op("disconnect", TRUE)
    /\ lastMsg' = NoMsg
    /\ UNCHANGED <<registered, pureVars, editVars>>
    /\ UNCHANGED <<messageCallback, statusCallback, messageCount, lastMessageTime,
                   timers, clock, liveVars>>

\* a scheduled reconnect fires: the setTimeout callback of ws.onclose
TimerFire ==
    /\ timers > 0
    /\ timers' = timers - 1
    /\ \E throws \in BOOLEAN : ConnectBody(throws)
    /\ NumOrphans' <= MaxOrphans
    /\ lastOp' = Op("timer", TRUE)
    /\ lastMsg' = NoMsg
    /\ UNCHANGED <<registered, pureVars, editVars>>
    /\ UNCHANGED <<reconnectAttempts, messageCallback, statusCallback, messageCount,
                   lastMessageTime, clock, liveVars>>

\* the connection of a connecting socket is established
OpenEvent(cur) ==
    /\ IF cur
       THEN /\ ws = "CONNECTING"
            /\ ws' = "OPEN"
            /\ UNCHANGED orphans
       ELSE /\ orphans["CONNECTING"] > 0
            /\ orphans' = [orphans EXCEPT !["CONNECTING"] = @ - 1, !["OPEN"] = @ + 1]
            /\ UNCHANGED ws
    /\ OnOpen
    /\ lastOp' = Op("open", TRUE)
    /\ lastMsg' = NoMsg
    /\ UNCHANGED <<registered, pureVars, editVars>>
    /\ UNCHANGED <<shouldReconnect, messageCallback, statusCallback, messageCount,
                   lastMessageTime, timers, clock, liveVars>>

\* the values Date.now() can return in handleLiveData when it returned t1 in
\* ws.onmessage: it is read again only by a handleLiveData that gets to the push
SecondReads(text, t1) ==
    IF JSONParse(text).ok /\ MessageCallback(JSONParse(text), messageCount + 1, t1).pushed
    THEN t1..MaxClock
    ELSE {t1}

\* a message arrives on an open socket
MessageEvent(cur, text) ==
    /\ IF cur THEN ws = "OPEN" ELSE orphans["OPEN"] > 0
    /\ messageCount < MaxMsgs
    /\ \E t1 \in clock..MaxClock : \E t2 \in SecondReads(text, t1) : OnMessage(text, t1, t2)
    /\ lastOp' = Op("message", JSONParse(text).ok)
    /\ lastMsg' = Msg(JSONParse(text))
    /\ UNCHANGED <<registered, pureVars, editVars>>
    /\ UNCHANGED <<ws, orphans, reconnectAttempts, shouldReconnect, messageCallback,
                   statusCallback, timers>>

\* an error is reported on a socket that is not closed
ErrorEvent(cur) ==
    /\ IF cur THEN ws \in {"CONNECTING", "OPEN"} ELSE NumOrphans > 0
    /\ OnError
    /\ lastOp' = Op("error", TRUE)
    /\ lastMsg' = NoMsg
    /\ UNCHANGED <<registered, pureVars, editVars>>
    /\ UNCHANGED <<ws, orphans, reconnectAttempts, shouldReconnect, messageCallback,
                   statusCallback, messageCount, lastMessageTime, timers, clock,
                   liveVars>>

\* the connection of a socket that is in readyState r is closed
CloseEvent(cur, r) ==
    /\ IF cur
       THEN /\ ws = r
            /\ r \in {"CONNECTING", "OPEN"}
            /\ ws' = "CLOSED"
            /\ UNCHANGED orphans
       ELSE /\ orphans[r] > 0
            /\ orphans' = [orphans EXCEPT ![r] = @ - 1]
            /\ UNCHANGED ws
    /\ (shouldReconnect /\ reconnectAttempts < maxReconnectAttempts) => timers < MaxTimers
    /\ OnClose
    /\ lastOp' = Op("close", TRUE)
    /\ lastMsg' = NoMsg
    /\ UNCHANGED <<registered, pureVars, editVars>>
    /\ UNCHANGED <<shouldReconnect, messageCallback, statusCallback, messageCount,
                   lastMessageTime, clock, liveVars>>

\* the state after `new WebSocketManager()`, `new LiveDataManager(...)` and
\* liveDataManager.initialize()
Init ==
    /\ ws = NoSocket
    /\ orphans = NoOrphans
    /\ reconnectAttempts = 0
    /\ shouldReconnect = FALSE
    /\ messageCallback = "handleLiveData"
    /\ statusCallback = "updateConnectionUI"
    /\ messageCount = 0
    /\ lastMessageTime = NoTime
    /\ status = "disconnected"
    /\ timers = 0
    /\ clock = 0
    /\ currentCells = <<>>
    /\ updateRateWindow = <<>>
    /\ stats = UpdateStatistics(0, <<>>, <<>>)
    /\ lastOp = Op("init", TRUE)
    /\ closeRun = 0
    /\ lastMsg = NoMsg
    /\ registered = [message |-> Registered(NoRegistration, "handleLiveData"),
                     status  |-> Registered(NoRegistration, "updateConnectionUI")]
    /\ calls = <<>>
    /\ args = NoArgs
    /\ result = NoResult
    /\ doc = NoDoc
    /\ edits = 0
    /\ zoomLevel = initialZoom
    /\ selection = NoSelection
    /\ panel = NoPanel
    /\ dataTypes = NoDataTypes

\* onMessage(callback) that keeps the subscriber it has
onMessageKeepsFirst(callback) ==
    messageCallback' = IF messageCallback = NoCallback THEN callback ELSE messageCallback

\* onMessage(callback)
onMessage(callback) ==
    messageCallback' = callback

\* onStatusChange(callback)
onStatusChange(callback) ==
    statusCallback' = callback

\* the functions a caller registers: the two of LiveDataManager.initialize and
\* one more for each slot
MessageSubscribers == {"handleLiveData", "logMessage"}
StatusSubscribers  == {"updateConnectionUI", "logStatus"}

\* a caller registers a message subscriber
RegisterMessage(callback) ==
    /\ onMessage(callback)
    /\ registered' = [registered EXCEPT !.message = Registered(@, callback)]
    /\ calls' = <<>>
    /\ lastOp' = Op("onMessage", TRUE)
    /\ lastMsg' = NoMsg
    /\ UNCHANGED <<ws, orphans, reconnectAttempts, shouldReconnect, statusCallback,
                   messageCount, lastMessageTime, status, timers, clock, liveVars,
                   closeRun, pureVars, editVars>>

\* a caller registers a status subscriber
RegisterStatus(callback) ==
    /\ onStatusChange(callback)
    /\ registered' = [registered EXCEPT !.status = Registered(@, callback)]
    /\ calls' = <<>>
    /\ lastOp' = Op("onStatusChange", TRUE)
    /\ lastMsg' = NoMsg
    /\ UNCHANGED <<ws, orphans, reconnectAttempts, shouldReconnect, messageCallback,
                   messageCount, lastMessageTime, status, timers, clock, liveVars,
                   closeRun, pureVars, editVars>>

\* the close-run history is kept only where a property reads it
NoCloseRun == closeRun' = closeRun

Next ==
    \/ Connect /\ NoCloseRun
    \/ Disconnect /\ NoCloseRun
    \/ TimerFire /\ NoCloseRun
    \/ \E cur \in BOOLEAN : OpenEvent(cur) /\ NoCloseRun
    \/ \E cur \in BOOLEAN : \E text \in Messages : MessageEvent(cur, text) /\ NoCloseRun
    \/ \E cur \in BOOLEAN : ErrorEvent(cur) /\ NoCloseRun
    \/ \E cur \in BOOLEAN : \E r \in OrphanStates : CloseEvent(cur, r) /\ NoCloseRun

Spec == Init /\ [][Next]_vars

(***************************************************************************)
(* The same program with the close-run history: the close events with      *)
(* auto-reconnect enabled since the last open event or user call, counted   *)
(* up to one more than the reconnect budget.                                *)
(***************************************************************************)

\* connect(), disconnect() and an open event start a new run
ResetCloseRun == closeRun' = 0

\* a close event with auto-reconnect enabled adds to the run
CountCloseRun ==
    closeRun' = IF shouldReconnect /\ closeRun <= maxReconnectAttempts
                THEN closeRun + 1 ELSE closeRun

NextRun ==
    \/ Connect /\ ResetCloseRun
    \/ Disconnect /\ ResetCloseRun
    \/ TimerFire /\ NoCloseRun
    \/ \E cur \in BOOLEAN : OpenEvent(cur) /\ ResetCloseRun
    \/ \E cur \in BOOLEAN : \E text \in Messages : MessageEvent(cur, text) /\ NoCloseRun
    \/ \E cur \in BOOLEAN : ErrorEvent(cur) /\ NoCloseRun
    \/ \E cur \in BOOLEAN : \E r \in OrphanStates : CloseEvent(cur, r) /\ CountCloseRun

SpecRun == Init /\ [][NextRun]_vars

(***************************************************************************)
(* The user calls connect() once and then leaves the manager alone: the    *)
(* attempts open or fail, open sockets receive up to MaxSubMsgs messages   *)
(* and close, the timers of ws.onclose fire.  A timer that setTimeout has  *)
(* scheduled fires, and a socket that is connecting opens or is closed.    *)
(***************************************************************************)
ConnectOnce == lastOp.op = "init" /\ Connect /\ NoCloseRun

RetryTimerFire == TimerFire /\ NoCloseRun

AttemptEnds ==
    \/ OpenEvent(TRUE) /\ NoCloseRun
    \/ CloseEvent(TRUE, "CONNECTING") /\ NoCloseRun

NextRetry ==
    \/ ConnectOnce
    \/ RetryTimerFire
    \/ AttemptEnds
    \/ \E text \in Messages :
           messageCount < MaxSubMsgs /\ MessageEvent(TRUE, text) /\ clock' = clock
                                     /\ NoCloseRun
    \/ ErrorEvent(TRUE) /\ NoCloseRun
    \/ CloseEvent(TRUE, "OPEN") /\ NoCloseRun

SpecRetry ==
    /\ Init
    /\ [][NextRetry]_vars
    /\ WF_vars(RetryTimerFire)
    /\ WF_vars(AttemptEnds)

(***************************************************************************)
(* WebSocketManager on its own, from `new WebSocketManager()`: callers     *)
(* register subscribers at any time, and the browser delivers the events   *)
(* of the manager's socket.  The calls are made one connection after the   *)
(* other (connect() and disconnect() when the manager holds no socket that *)
(* is connecting or open), so that no socket is orphaned; at most          *)
(* MaxSubMsgs messages arrive, and the clock stands still.                 *)
(***************************************************************************)
InitSubs ==
    /\ ws = NoSocket
    /\ orphans = NoOrphans
    /\ reconnectAttempts = 0
    /\ shouldReconnect = FALSE
    /\ messageCallback = NoCallback
    /\ statusCallback = NoCallback
    /\ messageCount = 0
    /\ lastMessageTime = NoTime
    /\ status = "disconnected"
    /\ timers = 0
    /\ clock = 0
    /\ currentCells = <<>>
    /\ updateRateWindow = <<>>
    /\ stats = UpdateStatistics(0, <<>>, <<>>)
    /\ lastOp = Op("init", TRUE)
    /\ closeRun = 0
    /\ lastMsg = NoMsg
    /\ registered = [message |-> NoRegistration, status |-> NoRegistration]
    /\ calls = <<>>
    /\ args = NoArgs
    /\ result = NoResult
    /\ doc = NoDoc
    /\ edits = 0
    /\ zoomLevel = initialZoom
    /\ selection = NoSelection
    /\ panel = NoPanel
    /\ dataTypes = NoDataTypes

NextSubs ==
    \/ \E callback \in MessageSubscribers : RegisterMessage(callback)
    \/ \E callback \in StatusSubscribers : RegisterStatus(callback)
    \/ Connect /\ orphans' = NoOrphans /\ NoCloseRun
    \/ Disconnect /\ orphans' = NoOrphans /\ NoCloseRun
    \/ TimerFire /\ orphans' = NoOrphans /\ NoCloseRun
    \/ OpenEvent(TRUE) /\ NoCloseRun
    \/ \E text \in Messages :
           messageCount < MaxSubMsgs /\ MessageEvent(TRUE, text) /\ clock' = clock
                                     /\ NoCloseRun
    \/ ErrorEvent(TRUE) /\ NoCloseRun
    \/ \E r \in OrphanStates : CloseEvent(TRUE, r) /\ NoCloseRun

SpecSubs == InitSubs /\ [][NextSubs]_vars

(***************************************************************************)
(* The state of the managers while nothing has been connected yet, for the *)
(* specifications that apply one function or drive the editor only.        *)
(***************************************************************************)
Idle ==
    /\ ws = NoSocket
    /\ orphans = NoOrphans
    /\ reconnectAttempts = 0
    /\ shouldReconnect = FALSE
    /\ messageCallback = "handleLiveData"
    /\ statusCallback = "updateConnectionUI"
    /\ messageCount = 0
    /\ lastMessageTime = NoTime
    /\ status = "disconnected"
    /\ timers = 0
    /\ clock = 0
    /\ closeRun = 0
    /\ lastMsg = NoMsg
    /\ registered = [message |-> Registered(NoRegistration, "handleLiveData"),
                     status  |-> Registered(NoRegistration, "updateConnectionUI")]
    /\ calls = <<>>

idleVars == <<wsVars, clock, closeRun, lastMsg, registered, calls>>

(***************************************************************************)
(* calculateUpdateRate on its own: it is applied to a window of            *)
(* timestamps in the order Date.now() returned them.                       *)
(***************************************************************************)

\* ten timestamps 100 ms apart: 0, 100, ..., 900
TenSamples == [i \in 1..10 |-> (i - 1) * 100]

RateWindows ==
    {w \in UNION {[1..n -> 0..MaxRateTime] : n \in 0..MaxRateLen} :
        \A i \in 1..(Len(w) - 1) : w[i] <= w[i + 1]}
    \cup {TenSamples}

InitRate ==
    /\ Idle
    /\ currentCells = <<>>
    /\ updateRateWindow \in RateWindows
    /\ stats = UpdateStatistics(0, <<>>, <<>>)
    /\ lastOp = Op("init", TRUE)
    /\ args = NoArgs
    /\ result = NoResult
    /\ doc = NoDoc
    /\ edits = 0
    /\ zoomLevel = initialZoom
    /\ selection = NoSelection
    /\ panel = NoPanel
    /\ dataTypes = NoDataTypes

\* this.calculateUpdateRate()
ApplyCalculateUpdateRate ==
    /\ result' = CalculateUpdateRate(updateRateWindow)
    /\ lastOp' = Op("calculateUpdateRate", TRUE)
    /\ UNCHANGED <<idleVars, liveVars, args, editVars>>

NextRate == ApplyCalculateUpdateRate

SpecRate == InitRate /\ [][NextRate]_vars

(***************************************************************************)
(* findCellAtPosition on its own: it is applied to a point and to up to    *)
(* MaxHitCells cells whose geometry is stored as text.                     *)
(***************************************************************************)
Geometry(px, py, w, h) == [posx |-> px, posy |-> py, sizex |-> w, sizey |-> h]

HitCells ==
    { Geometry(<<"0">>, <<"0">>, <<"2">>, <<"1">>),
      Geometry(<<"1">>, <<"0">>, <<"2">>, <<"2">>),
      Geometry(<<"2", "p", "x">>, <<" ", "3">>, <<"a", "b", "c">>, <<>>),
      Geometry(<<"-", "1">>, <<"1">>, <<"3">>, <<"-", "1">>) }

InitHit ==
    /\ Idle
    /\ currentCells = <<>>
    /\ updateRateWindow = <<>>
    /\ stats = UpdateStatistics(0, <<>>, <<>>)
    /\ lastOp = Op("init", TRUE)
    /\ args \in [x : 0..MaxPoint, y : 0..MaxPoint,
                 cells : UNION {[1..n -> HitCells] : n \in 0..MaxHitCells}]
    /\ result = NoResult
    /\ doc = NoDoc
    /\ edits = 0
    /\ zoomLevel = initialZoom
    /\ selection = NoSelection
    /\ panel = NoPanel
    /\ dataTypes = NoDataTypes

\* canvasManager.findCellAtPosition(x, y, cells)
ApplyFindCellAtPosition ==
    /\ result' = FindCellAtPosition(args.x, args.y, args.cells)
    /\ lastOp' = Op("findCellAtPosition", TRUE)
    /\ UNCHANGED <<idleVars, liveVars, args, editVars>>

NextHit == ApplyFindCellAtPosition

SpecHit == InitHit /\ [][NextHit]_vars

(***************************************************************************)
(* The color conversions on their own: they are applied to every 16-bit    *)
(* packed value and to six-digit hex colors, with and without the leading  *)
(* '#', in which each channel takes every value while the two others take  *)
(* sample values.                                                          *)
(***************************************************************************)
PackedValues   == 0..65535
Channels       == 0..255
ChannelSamples == {0, 129, 255}

\* two hexadecimal digits
Hex2(n) == PadStart(NatToText(n, 16), 2)

\* the six digits of a color
HexDigits(r, g, b) == Hex2(r) \o Hex2(g) \o Hex2(b)

HexColors ==
    LET triples == (Channels \X ChannelSamples \X ChannelSamples)
                   \cup (ChannelSamples \X Channels \X ChannelSamples)
                   \cup (ChannelSamples \X ChannelSamples \X Channels)
    IN  {HexDigits(t[1], t[2], t[3]) : t \in triples}
        \cup {<<"#">> \o HexDigits(t[1], t[2], t[3]) : t \in triples}

\* the text the editor stores for a packed value
PackedText(rgb565) == <<"0", "x">> \o PadStart(NatToText(rgb565, 16), 4)

InitColor ==
    /\ Idle
    /\ currentCells = <<>>
    /\ updateRateWindow = <<>>
    /\ stats = UpdateStatistics(0, <<>>, <<>>)
    /\ lastOp = Op("init", TRUE)
    /\ args \in [rgb565 : PackedValues] \cup [hexColor : HexColors]
    /\ result = NoResult
    /\ doc = NoDoc
    /\ edits = 0
    /\ zoomLevel = initialZoom
    /\ selection = NoSelection
    /\ panel = NoPanel
    /\ dataTypes = NoDataTypes

\* rgb565ToRgb888(rgb565)
ApplyRgb565ToRgb888 ==
    /\ "rgb565" \in DOMAIN args
    /\ result' = rgb565ToRgb888(args.rgb565)
    /\ lastOp' = Op("rgb565ToRgb888", TRUE)
    /\ UNCHANGED <<idleVars, liveVars, args, editVars>>

\* rgb888ToRgb565(hexColor)
ApplyRgb888ToRgb565 ==
    /\ "hexColor" \in DOMAIN args
    /\ result' = rgb888ToRgb565(args.hexColor)
    /\ lastOp' = Op("rgb888ToRgb565", TRUE)
    /\ UNCHANGED <<idleVars, liveVars, args, editVars>>

\* a hex color is packed by rgb888ToRgb565 and the packed text is parsed and
\* unpacked as the drawing code does
EncodeThenDecode ==
    /\ "hexColor" \in DOMAIN args
    /\ result' = rgb565ToRgb888(OrZero(ParseInt(rgb888ToRgb565(args.hexColor), 16)))
    /\ lastOp' = Op("encodeThenDecode", TRUE)
    /\ UNCHANGED <<idleVars, liveVars, args, editVars>>

NextColor ==
    \/ ApplyRgb565ToRgb888
    \/ ApplyRgb888ToRgb565
    \/ EncodeThenDecode

SpecColor == InitColor /\ [][NextColor]_vars

(***************************************************************************)
(* The zoom of a canvas on its own: zoomIn, zoomOut, resetZoom and         *)
(* setZoom(level) are called in any order; the levels go from -0.1 to      *)
(* MaxLevel tenths.                                                        *)
(***************************************************************************)
ZoomLevels == {10 * l : l \in -1..MaxLevel}

InitZoom ==
    /\ Idle
    /\ currentCells = <<>>
    /\ updateRateWindow = <<>>
    /\ stats = UpdateStatistics(0, <<>>, <<>>)
    /\ lastOp = Op("init", TRUE)
    /\ args = NoArgs
    /\ result = NoResult
    /\ doc = NoDoc
    /\ edits = 0
    /\ zoomLevel = initialZoom
    /\ selection = NoSelection
    /\ panel = NoPanel
    /\ dataTypes = NoDataTypes

\* an operation on the zoom has been called: lastOp tells which one and
\* whether it changed the zoom level
Zoomed(op) ==
    /\ lastOp' = Op(op, zoomLevel' # zoomLevel)
    /\ UNCHANGED <<idleVars, liveVars, pureVars, doc, edits, selection, panel, dataTypes>>

CallZoomIn    == zoomLevel' = ZoomIn /\ Zoomed("zoomIn")
CallZoomOut   == zoomLevel' = ZoomOut /\ Zoomed("zoomOut")
CallResetZoom == zoomLevel' = ResetZoom /\ Zoomed("resetZoom")
CallSetZoom(level) == zoomLevel' = SetZoom(level) /\ Zoomed("setZoom")

NextZoom ==
    \/ CallZoomIn
    \/ CallZoomOut
    \/ CallResetZoom
    \/ \E level \in ZoomLevels : CallSetZoom(level)

SpecZoom == InitZoom /\ [][NextZoom]_vars

(***************************************************************************)
(* The editor.  Every handler acts on the screen and the cell the two       *)
(* dropdowns select and on the inputs the properties panel shows; the user  *)
(* selects screens and cells at will.  The parameters screen and cellIndex  *)
(* of an action name the selection it is taken under.                      *)
(***************************************************************************)

\* a cell of the config document as it is loaded: numbers for the geometry,
\* hexadecimal text for the packed colors
LoadedCell ==
    [posx |-> <<"1", "0">>, posy |-> <<"2", "0">>,
     sizex |-> <<"8", "0">>, sizey |-> <<"4", "0">>,
     bg_color    |-> <<"0", "x", "0", "0", "0", "0">>,
     font1_color |-> <<"0", "x", "f", "8", "0", "0">>,
     font2_color |-> <<"0", "x", "f", "f", "f", "f">>]

\* what the user types into the input of a geometry property
GeometryInputs == {<<"7">>, <<"-", "3">>, <<"a", "b", "c">>}

\* what the user picks or types in the input of a color property
ColorInputs == {<<"#", "f", "f", "0", "0", "0", "0">>, <<"r", "e", "d">>}

\* DATA_TYPES_SCREEN of the loaded document: it types the geometry members
\* as integer, or it is absent and every member is a String
LoadedDataTypes ==
    {[property \in GeometryProperties |-> type] : type \in {"integer", "String"}}

\* selectDefaultScreen(): the first screen and its first cell are selected
\* and the properties of that cell are rendered
DefaultSelection ==
    /\ selection = [screen |-> FirstScreen(doc), cell |-> FirstOption(doc, FirstScreen(doc))]
    /\ panel = RenderCellProperties(doc, selection.screen, selection.cell)

InitEdit ==
    /\ Idle
    /\ currentCells = <<>>
    /\ updateRateWindow = <<>>
    /\ stats = UpdateStatistics(0, <<>>, <<>>)
    /\ lastOp = Op("init", TRUE)
    /\ args = NoArgs
    /\ result = NoResult
    /\ doc = [n \in {1} |-> <<LoadedCell>>]
    /\ edits = 0
    /\ zoomLevel = initialZoom
    /\ dataTypes \in LoadedDataTypes
    /\ DefaultSelection

\* the screen dropdown is set to SCREEN_<screen>, onScreenChange is called,
\* and then the first cell is selected and a change event is dispatched
SelectScreenAndFirstCell(screen) ==
    /\ selection' = [screen |-> screen, cell |-> FirstOption(doc', screen)]
    /\ panel' = RenderCellProperties(doc', screen, FirstOption(doc', screen))

\* the user picks SCREEN_<screen> in the screen dropdown
SelectScreen(screen) ==
    /\ screen \in DOMAIN doc
    /\ screen # selection.screen
    /\ selection' = [screen |-> screen, cell |-> FirstOption(doc, screen)]
    /\ panel' = NoPanel
    /\ lastOp' = Op("onScreenChange", TRUE)
    /\ UNCHANGED <<idleVars, liveVars, pureVars, doc, edits, zoomLevel, dataTypes>>

\* the user picks the cell cellIndex in the cell dropdown, or clicks on it in
\* the canvas
SelectCell(cellIndex) ==
    /\ cellIndex \in 0..(Len(doc[selection.screen]) - 1)
    /\ selection' = [selection EXCEPT !.cell = cellIndex]
    /\ panel' = RenderCellProperties(doc, selection.screen, cellIndex)
    /\ lastOp' = Op("onCellChange", TRUE)
    /\ UNCHANGED <<idleVars, liveVars, pureVars, doc, edits, zoomLevel, dataTypes>>

\* click on the Clear Selection button
ClearSelectionClick ==
    /\ selection.cell # NoCell
    /\ selection' = [selection EXCEPT !.cell = NoCell]
    /\ panel' = NoPanel
    /\ lastOp' = Op("onClearSelection", TRUE)
    /\ UNCHANGED <<idleVars, liveVars, pureVars, doc, edits, zoomLevel, dataTypes>>

\* click on the Add Screen button
AddScreenClick ==
    /\ Max(DOMAIN doc) < MaxScreens
    /\ doc' = AddScreen
    /\ SelectScreenAndFirstCell(Max(DOMAIN doc) + 1)
    /\ lastOp' = Op("onAddScreen", TRUE)
    /\ UNCHANGED <<idleVars, liveVars, pureVars, edits, zoomLevel, dataTypes>>

\* click on the Delete Screen button with SCREEN_<screen> selected, confirmed
DeleteScreenClick(screen) ==
    /\ screen = selection.screen
    /\ IF Cardinality(DOMAIN doc) <= 1
       THEN UNCHANGED <<doc, selection, panel>>
       ELSE /\ doc' = DeleteScreen(screen)
            /\ SelectScreenAndFirstCell(FirstScreen(doc'))
    /\ lastOp' = Op("onDeleteScreen", Cardinality(DOMAIN doc) > 1)
    /\ UNCHANGED <<idleVars, liveVars, pureVars, edits, zoomLevel, dataTypes>>

\* click on the Add Cell button with SCREEN_<screen> selected
AddCellClick(screen) ==
    /\ screen = selection.screen
    /\ Len(doc[screen]) < MaxCells
    /\ doc' = AddCell(screen)
    /\ selection' = [selection EXCEPT !.cell = Len(doc[screen])]
    /\ panel' = RenderCellProperties(doc', screen, Len(doc[screen]))
    /\ lastOp' = Op("onAddCell", TRUE)
    /\ UNCHANGED <<idleVars, liveVars, pureVars, edits, zoomLevel, dataTypes>>

\* the Delete Cell handler that refuses only when the screen has no cell
DeleteCellClickOffByOne(screen, cellIndex) ==
    /\ screen = selection.screen
    /\ cellIndex = selection.cell
    /\ cellIndex # NoCell
    /\ IF Len(doc[screen]) < 1
       THEN UNCHANGED <<doc, selection, panel>>
       ELSE /\ doc' = DeleteCell(screen, cellIndex)
            /\ IF Len(doc'[screen]) > 0
               THEN SelectScreenAndFirstCell(screen)
               ELSE selection' = [selection EXCEPT !.cell = NoCell] /\ panel' = NoPanel
    /\ lastOp' = Op("onDeleteCell", Len(doc[screen]) >= 1)
    /\ UNCHANGED <<idleVars, liveVars, pureVars, edits, zoomLevel, dataTypes>>

\* click on the Delete Cell button with the cell cellIndex of SCREEN_<screen>
\* selected, confirmed
DeleteCellClick(screen, cellIndex) ==
    /\ screen = selection.screen
    /\ cellIndex = selection.cell
    /\ cellIndex # NoCell
    /\ IF Len(doc[screen]) <= 1
       THEN UNCHANGED <<doc, selection, panel>>
       ELSE /\ doc' = DeleteCell(screen, cellIndex)
            /\ IF Len(doc'[screen]) > 0
               THEN SelectScreenAndFirstCell(screen)
               ELSE selection' = [selection EXCEPT !.cell = NoCell] /\ panel' = NoPanel
    /\ lastOp' = Op("onDeleteCell", Len(doc[screen]) > 1)
    /\ UNCHANGED <<idleVars, liveVars, pureVars, edits, zoomLevel, dataTypes>>

\* the user changes the input of a property of the selected cell: the input
\* takes the value and the input event hands it to onPropertyChange
PropertyInput(screen, cellIndex, property, value) ==
    /\ screen = selection.screen
    /\ cellIndex = selection.cell
    /\ HasInputs(panel)
    /\ edits < MaxEdits
    /\ panel' = [panel EXCEPT ![property] = InputValue(property, value)]
    /\ doc' = OnPropertyChange(screen, cellIndex, property, InputValue(property, value))
    /\ edits' = edits + 1
    /\ lastOp' = Op("onPropertyChange", TRUE)
    /\ UNCHANGED <<idleVars, liveVars, pureVars, zoomLevel, selection, dataTypes>>

\* click on the increment or decrement button of a geometry property of the
\* selected cell; only the members typed integer have the buttons
StepperClick(screen, cellIndex, property, action) ==
    /\ screen = selection.screen
    /\ cellIndex = selection.cell
    /\ HasInputs(panel)
    /\ IsStepperInput(property)
    /\ edits < MaxEdits
    /\ panel' = [panel EXCEPT ![property] = SteppedValue(property, action)]
    /\ doc' = OnStepperClick(screen, cellIndex, property, action)
    /\ edits' = edits + 1
    /\ lastOp' = Op("stepper", TRUE)
    /\ UNCHANGED <<idleVars, liveVars, pureVars, zoomLevel, selection, dataTypes>>

\* click on the Save button: lastOp tells whether the document changed
SaveClick ==
    /\ doc' = OnSave(selection.screen, selection.cell)
    /\ lastOp' = Op("onSave", doc' # doc)
    /\ UNCHANGED <<idleVars, liveVars, pureVars, edits, zoomLevel, selection, panel, dataTypes>>

NextEdit ==
    \/ \E screen \in 1..MaxScreens : SelectScreen(screen)
    \/ \E cellIndex \in 0..(MaxCells - 1) : SelectCell(cellIndex)
    \/ ClearSelectionClick
    \/ AddScreenClick
    \/ \E screen \in 1..MaxScreens : DeleteScreenClick(screen)
    \/ \E screen \in 1..MaxScreens : AddCellClick(screen)
    \/ \E screen \in 1..MaxScreens : \E cellIndex \in 0..(MaxCells - 1) :
           DeleteCellClick(screen, cellIndex)
    \/ \E screen \in 1..MaxScreens : \E cellIndex \in 0..(MaxCells - 1) :
           \/ \E property \in GeometryProperties : \E value \in GeometryInputs :
                  PropertyInput(screen, cellIndex, property, value)
           \/ \E property \in ColorProperties : \E value \in ColorInputs :
                  PropertyInput(screen, cellIndex, property, value)
    \/ \E screen \in 1..MaxScreens : \E cellIndex \in 0..(MaxCells - 1) :
           \E property \in GeometryProperties : \E action \in {"increment", "decrement"} :
              StepperClick(screen, cellIndex, property, action)
    \/ SaveClick

SpecEdit == InitEdit /\ [][NextEdit]_vars

(***************************************************************************)
(* The structure of the document: from any document that has a screen and  *)
(* a cell in every screen, the user selects, adds and deletes screens and  *)
(* cells, accepting every confirmation.                                    *)
(***************************************************************************)
\* the documents of up to MaxScreens screens, each of 1 to MaxCells cells
LoadedDocs ==
    UNION {[screens -> UNION {[1..n -> {LoadedCell}] : n \in 1..MaxCells}] :
              screens \in (SUBSET (1..MaxScreens)) \ {{}}}

InitStructure ==
    /\ Idle
    /\ currentCells = <<>>
    /\ updateRateWindow = <<>>
    /\ stats = UpdateStatistics(0, <<>>, <<>>)
    /\ lastOp = Op("init", TRUE)
    /\ args = NoArgs
    /\ result = NoResult
    /\ doc \in LoadedDocs
    /\ edits = 0
    /\ zoomLevel = initialZoom
    /\ dataTypes = [property \in GeometryProperties |-> "integer"]
    /\ DefaultSelection

NextStructure ==
    \/ \E screen \in 1..MaxScreens : SelectScreen(screen)
    \/ \E cellIndex \in 0..(MaxCells - 1) : SelectCell(cellIndex)
    \/ ClearSelectionClick
    \/ AddScreenClick
    \/ \E screen \in 1..MaxScreens : DeleteScreenClick(screen)
    \/ \E screen \in 1..MaxScreens : AddCellClick(screen)
    \/ \E screen \in 1..MaxScreens : \E cellIndex \in 0..(MaxCells - 1) :
           DeleteCellClick(screen, cellIndex)
    \/ SaveClick

SpecStructure == InitStructure /\ [][NextStructure]_vars

(***************************************************************************)
(* A stored color is shown and written back: the document holds one cell   *)
(* whose bg_color is the text of a packed value, any of the 65536.  The    *)
(* change event of the cell dropdown renders the color into its input; a   *)
(* later input event of that input, with the value it shows, or a click on *)
(* Save writes the shown value back; clearing the selection in between     *)
(* removes the input.  args keeps the packed value the run started from.   *)
(***************************************************************************)
InitShow ==
    /\ Idle
    /\ currentCells = <<>>
    /\ updateRateWindow = <<>>
    /\ stats = UpdateStatistics(0, <<>>, <<>>)
    /\ lastOp = Op("init", TRUE)
    /\ args \in [rgb565 : PackedValues]
    /\ result = NoResult
    /\ doc = [n \in {1} |-> <<[LoadedCell EXCEPT !.bg_color = PackedText(args.rgb565)]>>]
    /\ edits = 0
    /\ zoomLevel = initialZoom
    /\ dataTypes = [property \in GeometryProperties |-> "integer"]
    /\ DefaultSelection

\* the input event of the input of a color property that leaves the input
\* with the value it shows (the picker is closed on the color it opened
\* with): onPropertyChange gets the shown value; the events of a run are not
\* counted in edits, as the document of the run is one cell
WriteBackShown(property) ==
    /\ HasInputs(panel)
    /\ doc' = OnPropertyChange(selection.screen, selection.cell, property,
                               InputValue(property, panel[property]))
    /\ lastOp' = Op("onPropertyChange", TRUE)
    /\ UNCHANGED <<idleVars, liveVars, pureVars, edits, zoomLevel, selection, panel, dataTypes>>

NextShow ==
    \/ SelectCell(0)
    \/ ClearSelectionClick
    \/ WriteBackShown("bg_color")
    \/ SaveClick

SpecShow == InitShow /\ [][NextShow]_vars

TypeOK ==
    /\ ws \in {NoSocket} \cup (ReadyStates \ {"CLOSING"})
    /\ orphans \in [OrphanStates -> 0..MaxOrphans]
    /\ NumOrphans <= MaxOrphans
    /\ reconnectAttempts \in 0..maxReconnectAttempts
    /\ shouldReconnect \in BOOLEAN
    /\ status \in States
    /\ timers \in 0..MaxTimers
    /\ messageCount \in 0..MaxMsgs
    /\ clock \in 0..MaxClock
    /\ closeRun \in 0..(maxReconnectAttempts + 1)
    /\ edits \in 0..MaxEdits
    /\ zoomLevel \in minZoom..maxZoom

(***************************************************************************)
(* Properties of the connection state machine                              *)
(***************************************************************************)

\* the sockets of the manager that are connecting or open
NumConnectingOrOpen == InState("CONNECTING") + InState("OPEN")

\* a close event has found the reconnect budget used up by 5 consecutive
\* close events, and the user has not called connect() or disconnect() since
Exhausted == closeRun > maxReconnectAttempts

\* C1: when disconnect() has just been called while a reconnect timer is
\* pending and that timer fires, the state stays `disconnected` and no new
\* socket is created.
C1_DisconnectStopsPendingReconnect ==
    [][(lastOp.op = "disconnect" /\ status = "disconnected" /\ lastOp'.op = "timer")
         => (status' = "disconnected" /\ UNCHANGED <<ws, orphans>>)]_vars

\* C2: connect() called while the state is `connecting` or `connected` (and
\* the WebSocket constructor does not throw) creates no socket and leaves the
\* state, the current socket and the counters unchanged.
C2_ConnectIdempotent ==
    [][(lastOp'.op = "connect" /\ status \in {"connecting", "connected"} /\ status' # "error")
         => UNCHANGED <<ws, orphans, status, shouldReconnect, reconnectAttempts,
                        messageCount, timers>>]_vars

\* C3: a close event that follows 5 consecutive close events with
\* auto-reconnect enabled and no open in between schedules no reconnect and
\* leaves the state `disconnected`; from then on, until the user calls
\* connect(), the state stays `disconnected` and no socket is created.
C3_BudgetExhausted ==
    [][/\ (lastOp'.op = "close" /\ shouldReconnect /\ closeRun >= maxReconnectAttempts)
            => (timers' = timers /\ status' = "disconnected")
       /\ (Exhausted /\ lastOp'.op # "connect")
            => /\ status' = "disconnected"
               /\ InState("CONNECTING")' <= InState("CONNECTING")
      ]_vars

\* C4: at most one scheduled reconnect is pending in every reachable state.
C4_OneReconnectPending == timers <= 1

\* C5: at most one socket of the manager is connecting or open in every
\* reachable state.
C5_OneLiveSocket == NumConnectingOrOpen <= 1

\* C6: every close event sets the state to `disconnected`; with
\* auto-reconnect enabled and fewer than 5 attempts it adds exactly 1 to the
\* attempt counter and schedules exactly one reconnect, otherwise it changes
\* neither the counter nor the timers.
C6_CloseSchedulesWithinBudget ==
    [][lastOp'.op = "close"
         => /\ status' = "disconnected"
            /\ IF shouldReconnect /\ reconnectAttempts < 5
               THEN reconnectAttempts' = reconnectAttempts + 1 /\ timers' = timers + 1
               ELSE reconnectAttempts' = reconnectAttempts /\ timers' = timers]_vars

\* a close event has scheduled a reconnect
C6_Witness ==
    /\ lastOp.op = "close"
    /\ status = "disconnected"
    /\ timers > 0
    /\ reconnectAttempts > 0

\* C7: after disconnect() returns auto-reconnect is off, the attempt counter
\* is 5, the manager holds no socket and the state is `disconnected`.
C7_DisconnectResets ==
    lastOp.op = "disconnect"
        => /\ ~shouldReconnect
           /\ reconnectAttempts = 5
           /\ ws = NoSocket
           /\ status = "disconnected"

\* C8: every open event sets the state to `connected` and the attempt
\* counter to 0.
C8_OpenResetsAttempts ==
    lastOp.op = "open" => (status = "connected" /\ reconnectAttempts = 0)

\* a socket has opened after a close had scheduled a reconnect
C8_Witness ==
    /\ lastOp.op = "open"
    /\ reconnectAttempts = 0
    /\ timers > 0
    /\ InState("OPEN") > 0

\* C9 as stated: the message counter and the last-message timestamp change
\* only for a message that decodes; one that fails to decode leaves both
\* unchanged.
C9_CountsDecodedOnly ==
    [][lastOp'.op = "message"
         => IF lastOp'.ok
            THEN messageCount' = messageCount + 1
            ELSE UNCHANGED <<messageCount, lastMessageTime>>]_vars

\* C9 amended: the message counter and the last-message timestamp change on
\* every inbound message, decodable or not, and on nothing else: each message
\* adds exactly 1 to the counter and sets the timestamp to its arrival time.
C9_CountsEveryMessage ==
    [][IF lastOp'.op = "message"
       THEN /\ messageCount' = messageCount + 1
            /\ lastMessageTime' \in clock..clock'
       ELSE UNCHANGED <<messageCount, lastMessageTime>>]_vars

\* a message that does not decode has been counted and timestamped
C9_Witness ==
    /\ lastOp.op = "message"
    /\ ~lastOp.ok
    /\ messageCount = 1
    /\ lastMessageTime = 1

\* C10: a message that fails to decode sets the state to `error`, leaves
\* every socket as it is, schedules nothing and leaves the pipeline (cell
\* set, update-rate window, statistics) unchanged.
C10_DecodeFailureIsolated ==
    [][(lastOp'.op = "message" /\ ~lastOp'.ok)
         => /\ status' = "error"
            /\ UNCHANGED <<ws, orphans, timers, reconnectAttempts, shouldReconnect>>
            /\ UNCHANGED <<currentCells, updateRateWindow, stats>>]_vars

\* a message that does not decode has arrived after one that filled the pipeline
C10_Witness ==
    /\ lastOp.op = "message"
    /\ ~lastOp.ok
    /\ status = "error"
    /\ currentCells # <<>>
    /\ updateRateWindow # <<>>
    /\ InState("OPEN") > 0

\* C26: in every reachable state, under every interleaving of connect(),
\* disconnect(), socket events and timer firings, the reconnect-attempt
\* counter is at least 0 and at most 5.
C26_AttemptsInRange == reconnectAttempts >= 0 /\ reconnectAttempts <= 5

\* a close event with auto-reconnect enabled has found the counter at 5 and
\* has scheduled nothing
C26_Witness ==
    /\ lastOp.op = "close"
    /\ shouldReconnect
    /\ reconnectAttempts = 5
    /\ timers = 0

\* the WebSocket constructor has thrown in connect(): the state is `error` and
\* the manager holds no socket that is connecting or open
ConstructorThrew == status = "error" /\ ws \notin {"CONNECTING", "OPEN"}

\* the retrying has ended
RetryingOver ==
    /\ status = "disconnected"
    /\ timers = 0
    /\ ws = "CLOSED"
    /\ reconnectAttempts <= 5

\* C27: if the user calls connect() once and makes no further calls, and
\* every connection attempt ends in a close event without ever opening, then
\* eventually the manager is `disconnected` with no reconnect timer pending
\* and stays so, the attempt counter being at most 5.
C27_RetryingTerminates ==
    [](lastOp.op # "open" /\ ~ConstructorThrew)
        => ((lastOp.op = "connect") ~> []RetryingOver)

\* the close event of the last automatic attempt has found the budget used
\* up and has scheduled nothing
C27_Witness ==
    /\ lastOp.op = "close"
    /\ RetryingOver
    /\ reconnectAttempts = 5
    /\ messageCount = 0

\* C25: an event of a socket that is no longer the manager's current socket
\* changes neither the reported state nor the counters and schedules no
\* reconnect (stated for its open and close events, which the socket counts
\* show), and the reported state is never `disconnected` while the current
\* socket is open.
C25_StaleEventsIgnored ==
    /\ [](ws = "OPEN" => status # "disconnected")
    /\ [][(lastOp'.op \in {"open", "close"} /\ ws' = ws /\ orphans' # orphans)
            => UNCHANGED <<status, reconnectAttempts, messageCount, lastMessageTime,
                           timers>>]_vars

(***************************************************************************)
(* Properties of the subscriber slots                                      *)
(***************************************************************************)

IsMessageCall(c) == c.slot = "message"
IsStatusCall(c)  == c.slot = "status"

\* C13: whatever registrations were made through onMessage, a message that
\* decodes is delivered exactly once, to the subscriber registered last and to
\* no other, and to nobody when none was registered; likewise every status
\* update of an open, message, error or close event is delivered exactly once
\* to the subscriber registered last through onStatusChange, and to nobody
\* when none was registered.
C13_SingleSlot ==
    /\ \A i \in 1..Len(calls) :
           /\ calls[i].to # NoCallback
           /\ calls[i].to = registered[calls[i].slot].last
    /\ (lastOp.op = "message" /\ lastOp.ok)
           => Len(SelectSeq(calls, IsMessageCall))
                = IF registered.message.last = NoCallback THEN 0 ELSE 1
    /\ lastOp.op \in {"open", "message", "error", "close"}
           => Len(SelectSeq(calls, IsStatusCall))
                = IF registered.status.last = NoCallback THEN 0 ELSE 1

\* both slots have had two subscribers, and a message that decodes has been
\* delivered to the later one of each
C13_Witness ==
    /\ lastOp.op = "message"
    /\ lastOp.ok
    /\ registered.message.all = MessageSubscribers
    /\ registered.status.all = StatusSubscribers
    /\ calls = <<Call(registered.message.last, "message", "data"),
                 Call(registered.status.last, "status", "connected")>>

(***************************************************************************)
(* Properties of the canvas                                                *)
(***************************************************************************)

\* the parsed geometry of a cell: what drawCell and findCellAtPosition use
Parsed(v) == OrZero(ParseInt(v, 10))

\* C18: findCellAtPosition(x, y, cells) returns the lowest index i with
\* px_i <= x <= px_i + w_i and py_i <= y <= py_i + h_i, and returns -1 exactly
\* when no cell contains the point.  (Indices are 0-based.)
C18_HitTestLowestIndex ==
    lastOp.op = "findCellAtPosition"
        => LET c == args.cells
               hits == {i \in 0..(Len(c) - 1) :
                          /\ Parsed(c[i + 1].posx) <= args.x
                          /\ args.x <= Parsed(c[i + 1].posx) + Parsed(c[i + 1].sizex)
                          /\ Parsed(c[i + 1].posy) <= args.y
                          /\ args.y <= Parsed(c[i + 1].posy) + Parsed(c[i + 1].sizey)}
           IN  /\ (result = -1) <=> (hits = {})
               /\ hits # {} => (result \in hits /\ \A i \in hits : result <= i)

\* the point is on the right and bottom edge of the first of two overlapping
\* cells, and the first one is returned
C18_Witness ==
    /\ lastOp.op = "findCellAtPosition"
    /\ args.x = 2
    /\ args.y = 1
    /\ args.cells = <<Geometry(<<"0">>, <<"0">>, <<"2">>, <<"1">>),
                      Geometry(<<"1">>, <<"0">>, <<"2">>, <<"2">>)>>
    /\ result = 0

\* C19: in every state of the editor, the parsed value of every cell's posx,
\* posy, sizex and sizey is an integer >= 0.
C19_GeometryNonNegative ==
    \A screen \in DOMAIN doc : \A i \in 1..Len(doc[screen]) :
        \A property \in GeometryProperties : Parsed(doc[screen][i][property]) >= 0

(***************************************************************************)
(* Properties of the config document                                       *)
(***************************************************************************)

\* a hex-text-encoded 16-bit packed color: hexadecimal digits, with or without
\* the prefix 0x, whose value base 16 is a 16-bit number; never text that
\* starts with "#"
IsPackedColor(text) ==
    /\ text # <<>>
    /\ Head(text) # "#"
    /\ ~ParseInt(text, 16).nan
    /\ ParseInt(text, 16).n \in 0..65535

\* C20: in every state of the config document, every cell's bg_color,
\* font1_color and font2_color is a hex-text-encoded 16-bit packed color,
\* never a '#rrggbb' string.
C20_ColorsArePacked ==
    \A screen \in DOMAIN doc : \A i \in 1..Len(doc[screen]) :
        \A property \in ColorProperties : IsPackedColor(doc[screen][i][property])

(***************************************************************************)
(* Properties of the telemetry pipeline                                    *)
(***************************************************************************)

\* C11: after a message that decodes as JSON but carries no array-typed
\* `cells` has been handled, the state is `connected`, never `error`.
C11_InvalidMessageNeverError ==
    (lastOp.op = "message" /\ lastOp.ok /\ ~lastMsg.valid) => status = "connected"

\* C12: handleLiveData on a decoded message whose `cells` is missing or is not
\* an array leaves the current cell set as it was and pushes no timestamp onto
\* the update-rate window.
C12_InvalidMessageLeavesPipeline ==
    [][(lastOp'.op = "message" /\ lastOp'.ok /\ ~lastMsg'.valid)
         => UNCHANGED <<currentCells, updateRateWindow>>]_vars

\* a message without an array-typed `cells` has been discarded after one that
\* filled the pipeline
C12_Witness ==
    /\ lastOp.op = "message"
    /\ lastOp.ok
    /\ ~lastMsg.valid
    /\ status = "connected"
    /\ currentCells # <<>>
    /\ Len(updateRateWindow) = 1

\* the test of the filter in handleLiveData: the cell's `enabled` is truthy
EnabledTruthy(cell) == Truthy(cell.enabled)

\* C14: after handleLiveData on a message with an array-typed `cells`, the
\* current cell set is exactly the message's cells whose `enabled` is truthy,
\* in the message's order, and holds nothing of the previous cell set.
C14_CellsAreEnabledSubsequence ==
    (lastOp.op = "message" /\ lastMsg.valid)
        => currentCells = SelectSeq(lastMsg.cells, EnabledTruthy)

\* C15: no cell whose `enabled` is the boolean false or the text "false" is
\* in the current cell set that is drawn.
C15_NoDisabledCellDrawn ==
    \A i \in 1..Len(currentCells) : currentCells[i].enabled \notin {"false", "'false'"}

\* C16: the update-rate window never holds more than 10 timestamps, and it
\* holds the arrival timestamps of the most recent min(n, 10) valid messages in
\* arrival order: every valid message appends its arrival timestamp, the oldest
\* timestamp leaving when there are more than 10, and nothing else changes the
\* window.
C16_WindowHoldsValidArrivals ==
    /\ [](Len(updateRateWindow) <= 10)
    /\ [][IF lastOp'.op = "message" /\ lastMsg'.valid
          THEN LET all == Append(updateRateWindow, clock')
               IN  updateRateWindow' = IF Len(all) > 10 THEN SubSeq(all, 2, Len(all)) ELSE all
          ELSE UNCHANGED updateRateWindow]_vars

\* C24: on each valid live message the arrival timestamp is pushed onto the
\* window before the rate shown for that message is computed: after the
\* message the window ends with its timestamp and the rate shown is the rate
\* of that window.  (Stated for the messages handled without an exception.)
C24_RateCountsThisMessage ==
    [][(/\ lastOp'.op = "message"
        /\ lastMsg'.valid
        /\ ~FilterThrows(lastMsg'.cells)
        /\ ~DrawLiveCellsThrows(FilterEnabled(lastMsg'.cells)))
         => /\ updateRateWindow' # <<>>
            /\ updateRateWindow'[Len(updateRateWindow')] = clock'
            /\ stats'.rate = CalculateUpdateRate(updateRateWindow')]_vars

\* C17: calculateUpdateRate returns 0 when the window holds fewer than 2
\* timestamps or its newest timestamp equals its oldest; otherwise it returns
\* (length - 1) * 1000 / (newest - oldest); for the ten timestamps
\* 0, 100, ..., 900 it returns 10.  (result is the fraction <<num, den>>.)
C17_UpdateRate ==
    lastOp.op = "calculateUpdateRate"
        => LET w == updateRateWindow
               n == Len(w)
           IN  /\ result[2] > 0
               /\ IF n < 2 \/ w[n] = w[1]
                  THEN result[1] = 0
                  ELSE result[1] * (w[n] - w[1]) = (n - 1) * 1000 * result[2]
               /\ w = TenSamples => result[1] = 10 * result[2]

\* the rate of the ten timestamps 0, 100, ..., 900 has been computed
C17_Witness ==
    /\ lastOp.op = "calculateUpdateRate"
    /\ updateRateWindow = TenSamples
    /\ result = <<9000, 900>>

(***************************************************************************)
(* Properties of the color conversions                                     *)
(***************************************************************************)

\* the number 0xRRGGBB of three channels
Rgb(r, g, b) == r * 65536 + g * 256 + b

\* the channels of a six-digit hex color, read digit by digit
HexOf(hexColor) == IF Head(hexColor) = "#" THEN Tail(hexColor) ELSE hexColor
ChannelOf(hexColor, i) ==
    DigitValue(HexOf(hexColor)[2 * i - 1]) * 16 + DigitValue(HexOf(hexColor)[2 * i])

\* C21: for every 16-bit packed value p, rgb565ToRgb888(p) has the channels
\* r = R + (R >> 5), g = G + (G >> 6), b = B + (B >> 5) with
\* R = ((p >> 11) & 31) << 3, G = ((p >> 5) & 63) << 2, B = (p & 31) << 3, each
\* channel lies in 0..255, and 0xF800, 0x07E0, 0x001F and 0xFFFF give pure
\* red, green, blue and white.
C21_DecodeChannels ==
    lastOp.op = "rgb565ToRgb888" =>
        LET p  == args.rgb565
            R0 == ((p \div 2048) % 32) * 8
            G0 == ((p \div 32) % 64) * 4
            B0 == (p % 32) * 8
            r  == R0 + (R0 \div 32)
            g  == G0 + (G0 \div 64)
            b  == B0 + (B0 \div 32)
        IN  /\ {r, g, b} \subseteq 0..255
            /\ result = Rgb(r, g, b)
            /\ p = 63488 => result = Rgb(255, 0, 0)
            /\ p = 2016  => result = Rgb(0, 255, 0)
            /\ p = 31    => result = Rgb(0, 0, 255)
            /\ p = 65535 => result = Rgb(255, 255, 255)

\* rgb565ToRgb888(0xF800) has returned 0xff0000
C21_Witness ==
    /\ lastOp.op = "rgb565ToRgb888"
    /\ args.rgb565 = 63488
    /\ result = 16711680

\* C22: for every r, g, b in 0..255, rgb888ToRgb565 of the six-digit hex color,
\* with or without the leading '#', yields the 16-bit value
\* ((r >> 3) << 11) | ((g >> 2) << 5) | (b >> 3), as '0x' and four digits;
\* #ff0000 gives 0xf800, #00ff00 gives 0x07e0 and #0000ff gives 0x001f.
C22_EncodePacks ==
    lastOp.op = "rgb888ToRgb565" =>
        LET r == ChannelOf(args.hexColor, 1)
            g == ChannelOf(args.hexColor, 2)
            b == ChannelOf(args.hexColor, 3)
            packed == BitOr(BitOr((r \div 8) * 2048, (g \div 4) * 32), b \div 8)
        IN  /\ packed \in PackedValues
            /\ result = PackedText(packed)
            /\ HexOf(args.hexColor) = <<"f", "f", "0", "0", "0", "0">>
                   => result = <<"0", "x", "f", "8", "0", "0">>
            /\ HexOf(args.hexColor) = <<"0", "0", "f", "f", "0", "0">>
                   => result = <<"0", "x", "0", "7", "e", "0">>
            /\ HexOf(args.hexColor) = <<"0", "0", "0", "0", "f", "f">>
                   => result = <<"0", "x", "0", "0", "1", "f">>

\* rgb888ToRgb565 has packed 0000ff, given without the '#', as 0x001f
C22_Witness ==
    /\ lastOp.op = "rgb888ToRgb565"
    /\ args.hexColor = <<"0", "0", "0", "0", "f", "f">>
    /\ result = <<"0", "x", "0", "0", "1", "f">>

\* the colors whose channels are all 0 or 255 with one or three channels lit,
\* and black
Extremes == {<<255, 0, 0>>, <<0, 255, 0>>, <<0, 0, 255>>, <<255, 255, 255>>, <<0, 0, 0>>}

\* C23: decoding the encoded color gives the color back exactly for pure red,
\* green and blue, for white and for black.
C23_ExtremesRoundTrip ==
    lastOp.op = "encodeThenDecode" =>
        \A t \in Extremes :
            HexOf(args.hexColor) = HexDigits(t[1], t[2], t[3])
                => result = Rgb(t[1], t[2], t[3])

\* pure green has been encoded and decoded back to 0x00ff00
C23_Witness ==
    /\ lastOp.op = "encodeThenDecode"
    /\ args.hexColor = <<"#", "0", "0", "f", "f", "0", "0">>
    /\ result = 65280

\* C28: for every 16-bit packed value p, encoding the decoded color gives p
\* back: the stored color of the cell is the text of p in every state, before
\* and after its shown value is written back, and whenever the input shows it,
\* the input holds '#' and the six digits of the decoded color, which
\* rgb888ToRgb565 packs into p again.
C28_ShowAndWriteBackKeeps ==
    /\ doc[1][1].bg_color = PackedText(args.rgb565)
    /\ ParseInt(doc[1][1].bg_color, 16) = Num(args.rgb565)
    /\ HasInputs(panel) =>
           /\ panel.bg_color = <<"#">> \o PadStart(NatToText(rgb565ToRgb888(args.rgb565), 16), 6)
           /\ rgb888ToRgb565(panel.bg_color) = PackedText(args.rgb565)

\* the color 0x001f is shown as #0000ff and the input event has written the
\* shown value back
C28_Witness ==
    /\ lastOp = Op("onPropertyChange", TRUE)
    /\ args.rgb565 = 31
    /\ panel.bg_color = <<"#", "0", "0", "0", "0", "f", "f">>
    /\ doc[1][1].bg_color = <<"0", "x", "0", "0", "1", "f">>

(***************************************************************************)
(* Properties of the structure of the document                             *)
(***************************************************************************)

\* C29: starting from a document with at least one screen and at least one
\* cell in every screen, after any sequence of add screen, delete screen, add
\* cell and delete cell with every confirmation accepted, the document has at
\* least one screen and every screen has at least one cell.
C29_DocumentNeverEmpty ==
    /\ DOMAIN doc # {}
    /\ \A screen \in DOMAIN doc : Len(doc[screen]) >= 1

\* the deletion of the only cell of a screen has been refused, in a document
\* that has a single screen
C29_Witness ==
    /\ lastOp = Op("onDeleteCell", FALSE)
    /\ Cardinality(DOMAIN doc) = 1
    /\ \A screen \in DOMAIN doc : Len(doc[screen]) = 1

(***************************************************************************)
(* Properties of the zoom                                                  *)
(***************************************************************************)

\* C30: after any sequence of zoomIn, zoomOut, resetZoom and setZoom(level)
\* the zoom level lies in [0.5, 4.0]; zoomIn at 4.0 and zoomOut at 0.5 leave it
\* unchanged, and resetZoom always sets it to 1.0.
C30_ZoomStaysInRange ==
    /\ [](zoomLevel >= 50 /\ zoomLevel <= 400)
    /\ [][/\ (lastOp'.op = "zoomIn" /\ zoomLevel = 400) => zoomLevel' = 400
          /\ (lastOp'.op = "zoomOut" /\ zoomLevel = 50) => zoomLevel' = 50
          /\ (lastOp'.op = "resetZoom") => zoomLevel' = 100]_vars

\* zoomIn has been called at 4.0 and has left the zoom level unchanged
C30_Witness ==
    /\ lastOp = Op("zoomIn", FALSE)
    /\ zoomLevel = 400

====
